---- MODULE Spec2Model ----
(***************************************************************************)
(* Level-wise Apriori mining of src/src/itemset.rs:                        *)
(*   generate_frequent_item_counts  (indexing, normalisation, level 1)     *)
(*   yo                             (level-2 support counting)             *)
(*   generate_frequent_itemset_counts_from_candidates (levels >= 3)        *)
(*   generate_frequent_itemsets     (the level driver)                     *)
(* A HashMap is a function, a Vec a sequence, a HashSet a set together     *)
(* with the order its iterator happens to yield.                           *)
(***************************************************************************)
EXTENDS Integers, Sequences, FiniteSets, TLC

\* ------------------------------------------------------------------ bounds
\* the raw labels an input draws from (A, B, C of the test fixtures)
Labels == {"Item A", "Item B", "Item C"}
\* most transactions of one input
MaxTx == 3
\* largest max level k of a run
MaxK == 4
\* most transactions of one worker-by-worker call of the support counter
MaxCounterTx == 2

\* ------------------------------------------------------------ f32 numbers
\* An f32 value is man * 2^(-exp) with man below 2^F32Bits.
F32Bits == 24

\* the min_support literals of the tests: 0.0, 0.01, 0.5, 1.0 as f32
MinSupports ==
  { [man |-> 0, exp |-> 0],
    [man |-> 10737418, exp |-> 30],
    [man |-> 1, exp |-> 1],
    [man |-> 1, exp |-> 0] }

RECURSIVE BitLen(_)
BitLen(p) == IF p = 0 THEN 0 ELSE 1 + BitLen(p \div 2)

\* round p * 2^(-e) to the nearest f32, ties to even
F32Round(p, e) ==
  LET r == BitLen(p) - F32Bits
  IN IF r <= 0 THEN [man |-> p, exp |-> e]
     ELSE LET q    == p \div (2 ^ r)
              rem  == p % (2 ^ r)
              half == 2 ^ (r - 1)
              up   == rem > half \/ (rem = half /\ q % 2 = 1)
          IN [man |-> IF up THEN q + 1 ELSE q, exp |-> e - r]

\* min_support * N, N = len as f32 (exact for the lengths used here)
F32Mul(x, n) == F32Round(x.man * n, x.exp)

\* x.ceil() followed by the cast to an unsigned integer
F32Ceil(x) ==
  IF x.exp <= 0 THEN x.man * (2 ^ (0 - x.exp))
  ELSE (x.man + (2 ^ x.exp) - 1) \div (2 ^ x.exp)

\* line 22: (min_support * N).ceil() as usize
min_support_count_usize(ms, len) == F32Ceil(F32Mul(ms, len))

\* fault: the threshold of line 127 rounded down
FloorCountU32(ms, len) == LET x == F32Mul(ms, len) IN
  IF x.exp <= 0 THEN x.man * (2 ^ (0 - x.exp)) ELSE x.man \div (2 ^ x.exp)

\* line 127: (min_support * N).ceil() as u32
min_support_count_u32(ms, len) == F32Ceil(F32Mul(ms, len))

\* ---------------------------------------------------------------- helpers
EmptyMap == [x \in {} |-> 0]

\* every order in which a HashSet's iterator may yield its elements
Perms(S) ==
  { s \in [1..Cardinality(S) -> S] :
      \A i, j \in 1..Cardinality(S) : i # j => s[i] # s[j] }

\* the orders a HashSet of labels may be iterated in
IterOrders == [S \in SUBSET Labels |-> Perms(S)]

\* the orders the keys of a HashMap over item identifiers may be iterated in
KeyOrders == [S \in SUBSET (0..(Cardinality(Labels) - 1)) |-> Perms(S)]

RECURSIVE InsertSorted(_, _)
InsertSorted(x, s) ==
  IF s = <<>> THEN <<x>>
  ELSE IF x <= Head(s) THEN <<x>> \o s
  ELSE <<Head(s)>> \o InsertSorted(x, Tail(s))

RECURSIVE sort_unstable(_)
sort_unstable(s) ==
  IF s = <<>> THEN <<>> ELSE InsertSorted(Head(s), sort_unstable(Tail(s)))

\* collect() of (key, value) pairs into a HashMap
Collect(pairs) ==
  [key \in {p[1] : p \in pairs} |->
     CHOOSE v \in {p[2] : p \in {q \in pairs : q[1] = key}} : TRUE]

\* Vec::contains
Contains(transaction, item) ==
  \E i \in DOMAIN transaction : transaction[i] = item

\* ---------------------------------------------- generate_frequent_item_counts
IndexStart ==
  [reverse_lookup |-> EmptyMap, inventory |-> EmptyMap, last_item_id |-> 0,
   item_counts |-> EmptyMap, items |-> <<>>, transactions_new |-> <<>>]

\* fault: the identifier counter of line 146 advanced by two
IndexItemSkipId(st, item) ==
  LET known   == item \in DOMAIN st.reverse_lookup
      item_id == IF known THEN st.reverse_lookup[item] ELSE st.last_item_id
      old     == IF item_id \in DOMAIN st.item_counts
                 THEN st.item_counts[item_id] ELSE 0
  IN [st EXCEPT
        !.reverse_lookup = IF known THEN @ ELSE (item :> item_id) @@ @,
        !.inventory      = IF known THEN @ ELSE (item_id :> item) @@ @,
        !.last_item_id   = IF known THEN @ ELSE @ + 2,
        !.items          = Append(@, item_id),
        !.item_counts    = (item_id :> old + 1) @@ @]

\* lines 135-151: one label of one raw transaction
IndexItem(st, item) ==
  LET known   == item \in DOMAIN st.reverse_lookup
      item_id == IF known THEN st.reverse_lookup[item] ELSE st.last_item_id
      old     == IF item_id \in DOMAIN st.item_counts
                 THEN st.item_counts[item_id] ELSE 0
  IN [st EXCEPT
        !.reverse_lookup = IF known THEN @ ELSE (item :> item_id) @@ @,
        !.inventory      = IF known THEN @ ELSE (item_id :> item) @@ @,
        !.last_item_id   = IF known THEN @ ELSE @ + 1,
        !.items          = Append(@, item_id),
        !.item_counts    = (item_id :> old + 1) @@ @]

RECURSIVE IndexItems(_, _)
IndexItems(st, order) ==
  IF order = <<>> THEN st
  ELSE IndexItems(IndexItem(st, Head(order)), Tail(order))

\* fault: line 153 left out
IndexTransactionUnsorted(st, order) ==
  LET done == IndexItems([st EXCEPT !.items = <<>>], order)
  IN [done EXCEPT !.transactions_new = Append(@, done.items)]

\* lines 132-156: one raw transaction, its labels yielded in `order`
IndexTransaction(st, order) ==
  LET done == IndexItems([st EXCEPT !.items = <<>>], order)
  IN [done EXCEPT !.transactions_new = Append(@, sort_unstable(done.items))]

RECURSIVE IndexFrom(_, _, _)
IndexFrom(states, raw, i) ==
  IF i > Len(raw) THEN states
  ELSE IndexFrom({IndexTransaction(s, o) : s \in states, o \in IterOrders[raw[i]]},
                 raw, i + 1)

\* fault: line 160 with > for >=
RetainStrict(counts, msc) ==
  [id \in {i \in DOMAIN counts : counts[i] > msc} |-> counts[id]]

\* line 160: item_counts.retain(|_, c| c >= min_support_count)
RetainFrequent(counts, msc) ==
  [id \in {i \in DOMAIN counts : counts[i] >= msc} |-> counts[id]]

\* lines 115-163: every outcome the iteration orders of the HashSets allow
generate_frequent_item_counts(raw, ms) ==
  { [item_counts  |-> RetainFrequent(s.item_counts,
                                     min_support_count_u32(ms, Len(raw))),
     inventory    |-> s.inventory,
     transactions |-> s.transactions_new] : s \in IndexFrom({IndexStart}, raw, 1) }

\* ------------------------------------------------------------ support counting
\* fault: line 91 with any() for all()
CountAny(candidate, transactions) ==
  Cardinality({ i \in DOMAIN transactions :
                  \E j \in DOMAIN candidate : Contains(transactions[i], candidate[j]) })

\* lines 65-68 and 89-92: transactions containing every item of the candidate
CandidateCount(candidate, transactions) ==
  Cardinality({ i \in DOMAIN transactions :
                  \A j \in DOMAIN candidate : Contains(transactions[i], candidate[j]) })

\* line 34: keys().combinations(2), the keys in the order the HashMap yields them
Combinations2(keys) ==
  { <<keys[p[1]], keys[p[2]]>> :
      p \in { q \in (DOMAIN keys) \X (DOMAIN keys) : q[1] < q[2] } }

\* lines 56-78: count each pair, keep the frequent ones, sort the pair
yo(candidates, transactions, min_support_count) ==
  Collect({ <<sort_unstable(c), CandidateCount(c, transactions)>> :
              c \in { d \in candidates :
                        CandidateCount(d, transactions) >= min_support_count } })

\* fault: lines 93-97 without the threshold test
CountsFromCandidatesUnfiltered(candidates, transactions, min_support_count) ==
  Collect({ <<c, CandidateCount(c, transactions)>> : c \in candidates })

\* lines 81-100
generate_frequent_itemset_counts_from_candidates(candidates, transactions, min_support_count) ==
  Collect({ <<c, CandidateCount(c, transactions)>> :
              c \in { d \in candidates :
                        CandidateCount(d, transactions) >= min_support_count } })

\* line 109
convert_to_itemset_counts(counts) ==
  Collect({ <<(<<id>>), counts[id]>> : id \in DOMAIN counts })

\* fault: line 45 with > for >=
RetainLonger(transactions, size) ==
  SelectSeq(transactions, LAMBDA t : Len(t) > size)

\* lines 33 and 45: transactions.retain(|t| t.len() >= size)
RetainMinLen(transactions, size) ==
  SelectSeq(transactions, LAMBDA t : Len(t) >= size)

\* fault: line 44 with 3..k for 3..=k
LoopExclusive(n, max_level) == n < max_level

\* line 44: size is within 3..=k
LoopContinues(n, max_level) == n <= max_level

\* ------------------------------------------------------------------ join_step
\* the itemset without its i-th item
DropAt(s, i) == SubSeq(s, 1, i - 1) \o SubSeq(s, i + 1, Len(s))

\* two itemsets that agree on all but their last item are unioned
JoinPairs(itemsets) ==
  { Append(a, b[Len(b)]) :
      <<a, b>> \in { p \in itemsets \X itemsets :
                       /\ Len(p[1]) = Len(p[2])
                       /\ SubSeq(p[1], 1, Len(p[1]) - 1) = SubSeq(p[2], 1, Len(p[2]) - 1)
                       /\ p[1][Len(p[1])] < p[2][Len(p[2])] } }

\* combi::join_step; whether it also discards the candidates with an
\* infrequent subset is left open, so both strengths are allowed
join_step(itemsets, prunes) ==
  IF prunes
  THEN { c \in JoinPairs(itemsets) : \A i \in DOMAIN c : DropAt(c, i) \in itemsets }
  ELSE JoinPairs(itemsets)

\* lines 103-106
generate_candidates_from_prev(prev_frequent_itemsets, prunes) ==
  join_step(DOMAIN prev_frequent_itemsets, prunes)

\* lines 501-503: the inverse of the Inventory
get_reverse_lookup(inv) == Collect({ <<inv[id], id>> : id \in DOMAIN inv })

\* ------------------------------------------------------------------- state
VARIABLES
  raw_transactions,       \* the input: a sequence of label sets
  min_support,            \* the input fraction, an f32
  k,                      \* the input max level
  pc,                     \* position in generate_frequent_itemsets
  min_support_count,      \* line 22
  item_counts,            \* line 25: id -> count, pruned
  inventory,              \* line 25: id -> label
  transactions,           \* line 25: the working transaction collection
  all_frequent_itemsets,  \* line 20: level -> (itemset -> count)
  size,                   \* the loop variable of line 44
  normalized,             \* history: the collection as indexing returned it
  counted,                \* history: the levels the support counter ran for
  \* one parallel call of the support counter (lines 81-100)
  candidate_counts,       \* its candidates, a Vec of itemsets
  par_transactions,       \* its transaction slice
  par_min_support_count,  \* its threshold
  pending,                \* (candidate, transaction) tests no worker has run yet
  partial,                \* candidate index -> the tally of its own count()
  emitted,                \* candidate indices whose filter_map closure returned
  collected               \* the HashMap collect() is building

dvars == <<raw_transactions, min_support, k, pc, min_support_count, item_counts,
           inventory, transactions, all_frequent_itemsets, size, normalized, counted>>

pvars == <<candidate_counts, par_transactions, par_min_support_count, pending,
           partial, emitted, collected>>

vars == <<dvars, pvars>>

RECURSIVE SeqsUpTo(_, _)
SeqsUpTo(S, n) ==
  IF n = 0 THEN {<<>>}
  ELSE LET shorter == SeqsUpTo(S, n - 1)
       IN shorter \cup { Append(s, x) : s \in { t \in shorter : Len(t) = n - 1 }, x \in S }

DriverIdle ==
  /\ min_support_count = 0
  /\ item_counts = EmptyMap
  /\ inventory = EmptyMap
  /\ transactions = <<>>
  /\ all_frequent_itemsets = EmptyMap
  /\ size = 0
  /\ normalized = <<>>
  /\ counted = {}

CounterIdle ==
  /\ candidate_counts = <<>>
  /\ par_transactions = <<>>
  /\ par_min_support_count = 0
  /\ pending = {}
  /\ partial = <<>>
  /\ emitted = {}
  /\ collected = EmptyMap

Init ==
  /\ raw_transactions \in SeqsUpTo(SUBSET Labels, MaxTx)
  /\ min_support \in MinSupports
  /\ k \in 0..MaxK
  /\ pc = "start"
  /\ DriverIdle
  /\ CounterIdle

\* lines 20-26: the threshold, then indexing
Index ==
  /\ pc = "start"
  /\ min_support_count' = min_support_count_usize(min_support, Len(raw_transactions))
  /\ \E r \in generate_frequent_item_counts(raw_transactions, min_support) :
       /\ item_counts' = r.item_counts
       /\ inventory' = r.inventory
       /\ transactions' = r.transactions
       /\ normalized' = r.transactions
  /\ pc' = "indexed"
  /\ UNCHANGED <<raw_transactions, min_support, k, all_frequent_itemsets, size, counted>>
  /\ UNCHANGED pvars

\* lines 29-31: k = 1, level 1 only
LevelOneOnly ==
  /\ pc = "indexed"
  /\ k = 1
  /\ all_frequent_itemsets' =
       (1 :> convert_to_itemset_counts(item_counts)) @@ all_frequent_itemsets
  /\ pc' = "loop"
  /\ size' = 3
  /\ UNCHANGED <<raw_transactions, min_support, k, min_support_count, item_counts,
                 inventory, transactions, normalized, counted>>
  /\ UNCHANGED pvars

\* lines 32-41: every other k, levels 1 and 2
LevelTwo ==
  /\ pc = "indexed"
  /\ k # 1
  /\ transactions' = RetainMinLen(transactions, 2)
  /\ \E keys \in KeyOrders[DOMAIN item_counts] :
       all_frequent_itemsets' =
         (2 :> yo(Combinations2(keys), transactions', min_support_count)) @@
         (1 :> convert_to_itemset_counts(item_counts)) @@ all_frequent_itemsets
  /\ counted' = counted \cup {2}
  /\ pc' = "loop"
  /\ size' = 3
  /\ UNCHANGED <<raw_transactions, min_support, k, min_support_count, item_counts,
                 inventory, normalized>>
  /\ UNCHANGED pvars

\* lines 44-51: one iteration of the loop over 3..=k
LevelN ==
  /\ pc = "loop"
  /\ LoopContinues(size, k)
  /\ transactions' = RetainMinLen(transactions, size)
  /\ \E prunes \in BOOLEAN :
       all_frequent_itemsets' =
         (size :> generate_frequent_itemset_counts_from_candidates(
                    generate_candidates_from_prev(all_frequent_itemsets[size - 1], prunes),
                    transactions', min_support_count)) @@ all_frequent_itemsets
  /\ counted' = counted \cup {size}
  /\ size' = size + 1
  /\ UNCHANGED <<raw_transactions, min_support, k, pc, min_support_count, item_counts,
                 inventory, normalized>>
  /\ UNCHANGED pvars

\* line 53: the loop is over, the result is returned
Return ==
  /\ pc = "loop"
  /\ ~LoopContinues(size, k)
  /\ pc' = "done"
  /\ UNCHANGED <<raw_transactions, min_support, k, min_support_count, item_counts,
                 inventory, transactions, all_frequent_itemsets, size, normalized, counted>>
  /\ UNCHANGED pvars

Next == Index \/ LevelOneOnly \/ LevelTwo \/ LevelN \/ Return

Spec == Init /\ [][Next]_vars

\* ------------------------------------- the support counter, worker by worker
Ids == 0..(Cardinality(Labels) - 1)

\* the normalized transactions a level >= 2 hands to the counter
WorkingTransactions ==
  { sort_unstable(CHOOSE o \in Perms(S) : TRUE) :
      S \in { T \in SUBSET Ids : Cardinality(T) >= 2 } }

\* the candidate lists of a level-2 and of a level-3 call
CandidateLists ==
  { << <<0, 1>>, <<0, 2>>, <<1, 2>> >>, << <<0, 1, 2>> >> }

InitCounter ==
  /\ raw_transactions = <<>>
  /\ min_support = [man |-> 0, exp |-> 0]
  /\ k = 0
  /\ pc = "counter"
  /\ DriverIdle
  /\ candidate_counts \in CandidateLists
  /\ par_transactions \in SeqsUpTo(WorkingTransactions, MaxCounterTx)
  /\ par_min_support_count \in 0..MaxCounterTx
  /\ pending = (DOMAIN candidate_counts) \X (DOMAIN par_transactions)
  /\ partial = [c \in DOMAIN candidate_counts |-> 0]
  /\ emitted = {}
  /\ collected = EmptyMap

\* line 91: the filter closure on one transaction
Hit(candidate, transaction) ==
  \A j \in DOMAIN candidate : Contains(transaction, candidate[j])

\* fault: one counter shared by the workers of all candidates
SharedTally(tallies, c, hit) ==
  [x \in DOMAIN tallies |-> tallies[x] + (IF hit THEN 1 ELSE 0)]

\* lines 89-92: count() adds to the tally of the candidate's own iterator
Tally(tallies, c, hit) ==
  [tallies EXCEPT ![c] = @ + (IF hit THEN 1 ELSE 0)]

\* lines 89-92: some worker tests one transaction against one candidate
TestOne ==
  /\ pc = "counter"
  /\ \E p \in pending :
       /\ pending' = pending \ {p}
       /\ partial' = Tally(partial, p[1],
                           Hit(candidate_counts[p[1]], par_transactions[p[2]]))
  /\ UNCHANGED <<candidate_counts, par_transactions, par_min_support_count,
                 emitted, collected>>
  /\ UNCHANGED dvars

\* lines 93-99: a candidate's count is complete; its closure returns and
\* collect() takes the pair, if any
Emit ==
  /\ pc = "counter"
  /\ \E c \in (DOMAIN candidate_counts) \ emitted :
       /\ \A p \in pending : p[1] # c
       /\ emitted' = emitted \cup {c}
       /\ collected' =
            IF partial[c] >= par_min_support_count
            THEN (candidate_counts[c] :> partial[c]) @@ collected
            ELSE collected
  /\ UNCHANGED <<candidate_counts, par_transactions, par_min_support_count,
                 pending, partial>>
  /\ UNCHANGED dvars

NextCounter == TestOne \/ Emit

SpecCounter == InitCounter /\ [][NextCounter]_vars

\* ------------------------------------------------------------------ claims
\* the labels of an itemset's identifiers
LabelsOf(itemset) == { inventory[itemset[i]] : i \in DOMAIN itemset }

\* the transactions of the original input that contain all items of the itemset
TrueSupport(itemset) ==
  Cardinality({ i \in DOMAIN raw_transactions : LabelsOf(itemset) \subseteq raw_transactions[i] })

AllLabels == UNION { raw_transactions[i] : i \in DOMAIN raw_transactions }

LongEnough(txs, n) == SelectSeq(txs, LAMBDA t : Len(t) >= n)

StrictlyAscending(s) == \A i, j \in DOMAIN s : i < j => s[i] < s[j]

\* C1: every itemset returned at any level is paired with the exact number of
\* transactions of the original input that contain all of its items
C1_SupportIsExact ==
  \A n \in DOMAIN all_frequent_itemsets :
    \A x \in DOMAIN all_frequent_itemsets[n] :
      /\ Len(x) = n
      /\ all_frequent_itemsets[n][x] = TrueSupport(x)

\* a finished run whose level 3 holds an itemset although a shorter
\* transaction was dropped from the working set
C1_Witness ==
  /\ pc = "done"
  /\ 3 \in DOMAIN all_frequent_itemsets
  /\ DOMAIN all_frequent_itemsets[3] # {}
  /\ Len(transactions) < Len(raw_transactions)
  /\ \E x \in DOMAIN all_frequent_itemsets[2] :
       all_frequent_itemsets[2][x] > Len(transactions)

\* C2: every itemset of every level has a count of at least the one threshold
\* ceil(min_support * N), at level 1 as at the later levels
C2_CountsMeetThreshold ==
  \A n \in DOMAIN all_frequent_itemsets :
    \A x \in DOMAIN all_frequent_itemsets[n] :
      all_frequent_itemsets[n][x]
        >= min_support_count_usize(min_support, Len(raw_transactions))

\* a finished run with a threshold of 2 or more that kept three items and a
\* pair and pruned another pair
C2_Witness ==
  /\ pc = "done"
  /\ k >= 2
  /\ min_support_count >= 2
  /\ DOMAIN all_frequent_itemsets[2] # {}
  /\ Cardinality(DOMAIN all_frequent_itemsets[1]) = 3
  /\ \E a, b \in DOMAIN item_counts :
       a < b /\ <<a, b>> \notin DOMAIN all_frequent_itemsets[2]

\* C3: with max level >= 2, every item that meets the threshold is at level 1
\* and every pair of level-1 items that meets it is at level 2
C3_LevelsOneAndTwoComplete ==
  (pc = "done" /\ k >= 2) =>
    /\ \A id \in DOMAIN inventory :
         TrueSupport(<<id>>) >= min_support_count
           => <<id>> \in DOMAIN all_frequent_itemsets[1]
    /\ \A a, b \in DOMAIN inventory :
         ( /\ a < b
           /\ <<a>> \in DOMAIN all_frequent_itemsets[1]
           /\ <<b>> \in DOMAIN all_frequent_itemsets[1]
           /\ TrueSupport(<<a, b>>) >= min_support_count )
           => <<a, b>> \in DOMAIN all_frequent_itemsets[2]

\* a finished run with threshold 0 whose level 2 holds a pair that occurs
\* together in no transaction
C3_Witness ==
  /\ pc = "done"
  /\ k >= 2
  /\ min_support_count = 0
  /\ \E x \in DOMAIN all_frequent_itemsets[2] : all_frequent_itemsets[2][x] = 0

\* C4: every itemset of a level n >= 2 has each of its (n-1)-subsets at level
\* n-1, with a count of at least the threshold
C4_SubsetsAreFrequent ==
  \A n \in DOMAIN all_frequent_itemsets :
    n >= 2 =>
      \A x \in DOMAIN all_frequent_itemsets[n] :
        \A i \in DOMAIN x :
          /\ DropAt(x, i) \in DOMAIN all_frequent_itemsets[n - 1]
          /\ all_frequent_itemsets[n - 1][DropAt(x, i)] >= min_support_count

\* a finished run with a threshold of 2 that kept a triple which one of its
\* three transactions does not contain
C4_Witness ==
  /\ pc = "done"
  /\ k >= 3
  /\ min_support_count = 2
  /\ Len(raw_transactions) = 3
  /\ \E x \in DOMAIN all_frequent_itemsets[3] : all_frequent_itemsets[3][x] = 2

\* C5: with max level 0 the run returns no level at all and neither indexes
\* nor counts
C5_MaxLevelZeroIsEmpty ==
  (pc = "done" /\ k = 0) =>
    /\ DOMAIN all_frequent_itemsets = {}
    /\ counted = {}
    /\ normalized = <<>>

\* C6: for k >= 1 the result has exactly the levels 1..k; k = 1 runs no
\* level-2 counting; an empty level is followed by empty levels up to k
C6_LevelsAreOneToK ==
  (pc = "done" /\ k >= 1) =>
    /\ DOMAIN all_frequent_itemsets = 1..k
    /\ (k = 1 => counted = {} /\ transactions = normalized)
    /\ counted = 2..k
    /\ \A n \in 1..(k - 1) :
         DOMAIN all_frequent_itemsets[n] = {} => DOMAIN all_frequent_itemsets[n + 1] = {}

\* a finished run with k >= 4 whose level 2 has survivors and whose level 3
\* has none
C6_Witness ==
  /\ pc = "done"
  /\ k >= 4
  /\ DOMAIN all_frequent_itemsets[2] # {}
  /\ DOMAIN all_frequent_itemsets[3] = {}
  /\ DOMAIN all_frequent_itemsets[k] = {}

\* the first transaction a label occurs in
FirstSeen(label) ==
  CHOOSE i \in DOMAIN raw_transactions :
    /\ label \in raw_transactions[i]
    /\ \A j \in DOMAIN raw_transactions : label \in raw_transactions[j] => i <= j

\* C7: after indexing the identifiers are exactly 0..D-1 for the D distinct
\* labels, one per label, handed out in first-seen order, and inverting the
\* Inventory recovers every label's identifier
C7_IdentifiersAreDense ==
  pc \in {"indexed", "loop", "done"} =>
    /\ DOMAIN inventory = 0..(Cardinality(AllLabels) - 1)
    /\ { inventory[id] : id \in DOMAIN inventory } = AllLabels
    /\ \A a, b \in DOMAIN inventory : inventory[a] = inventory[b] => a = b
    /\ \A a, b \in DOMAIN inventory :
         FirstSeen(inventory[a]) < FirstSeen(inventory[b]) => a < b
    /\ DOMAIN get_reverse_lookup(inventory) = AllLabels
    /\ \A id \in DOMAIN inventory : get_reverse_lookup(inventory)[inventory[id]] = id

\* an indexed input whose three labels are first seen in three transactions,
\* one of them seen again later
C7_Witness ==
  /\ pc = "indexed"
  /\ Cardinality(DOMAIN inventory) = 3
  /\ Len(raw_transactions) = 3
  /\ \A a, b \in DOMAIN inventory :
       a # b => FirstSeen(inventory[a]) # FirstSeen(inventory[b])
  /\ inventory[0] \in raw_transactions[3]

\* the tests of a candidate that have run
Tested(c) == { t \in DOMAIN par_transactions : <<c, t>> \notin pending }

\* C8: under every interleaving of the workers a candidate's tally holds its
\* own tests only, the inputs are only read, and the collected mapping is the
\* one a sequential count gives
C8_CollectedIsDeterministic ==
  pc = "counter" =>
    /\ \A c \in DOMAIN candidate_counts :
         partial[c] = Cardinality({ t \in Tested(c) :
                        \A j \in DOMAIN candidate_counts[c] :
                          \E i \in DOMAIN par_transactions[t] :
                            par_transactions[t][i] = candidate_counts[c][j] })
    /\ emitted = DOMAIN candidate_counts =>
         LET counts == [c \in DOMAIN candidate_counts |->
                          Cardinality({ t \in DOMAIN par_transactions :
                            { candidate_counts[c][j] : j \in DOMAIN candidate_counts[c] }
                              \subseteq
                            { par_transactions[t][i] : i \in DOMAIN par_transactions[t] } })]
             kept == { c \in DOMAIN candidate_counts : counts[c] >= par_min_support_count }
         IN /\ DOMAIN collected = { candidate_counts[c] : c \in kept }
            /\ \A c \in kept : collected[candidate_counts[c]] = counts[c]

\* a finished call of three candidates that kept one with count 2 and dropped
\* one with count 1
C8_Witness ==
  /\ pc = "counter"
  /\ Len(candidate_counts) = 3
  /\ emitted = DOMAIN candidate_counts
  /\ Cardinality(DOMAIN collected) = 1
  /\ \E x \in DOMAIN collected : collected[x] = 2
  /\ \E c \in DOMAIN candidate_counts : partial[c] = 1

\* C9: from level 2 on the working collection is the normalized collection
\* without the transactions shorter than the last counted level, in the same
\* order; a step only removes transactions and never restores one
C9_WorkingSetNarrows ==
  /\ [](pc \in {"indexed", "loop", "done"} =>
          transactions = LongEnough(normalized, IF counted = {} THEN 0 ELSE size - 1))
  /\ [][pc # "start" =>
          \E n \in 0..(MaxK + 1) : transactions' = LongEnough(transactions, n)]_vars

\* a finished run that dropped one transaction before level 2 and another
\* before level 3
C9_Witness ==
  /\ pc = "done"
  /\ k >= 3
  /\ Len(normalized) = 3
  /\ Len(transactions) = 1
  /\ \E i \in DOMAIN normalized : Len(normalized[i]) = 2
  /\ \E i \in DOMAIN normalized : Len(normalized[i]) < 2

\* C10: level-1 pruning leaves the Inventory and the transactions whole: every
\* identifier keeps its label, and there is one ascending duplicate-free
\* transaction per input transaction, in input order, holding the identifiers
\* of all its labels
C10_PruningLeavesTheRestWhole ==
  pc \in {"indexed", "loop", "done"} =>
    /\ Cardinality(DOMAIN inventory) = Cardinality(AllLabels)
    /\ DOMAIN item_counts \subseteq DOMAIN inventory
    /\ Len(normalized) = Len(raw_transactions)
    /\ \A i \in DOMAIN normalized :
         /\ StrictlyAscending(normalized[i])
         /\ \A j \in DOMAIN normalized[i] : normalized[i][j] \in DOMAIN inventory
         /\ { inventory[normalized[i][j]] : j \in DOMAIN normalized[i] } = raw_transactions[i]
    /\ (pc = "indexed" => transactions = normalized)

\* an indexed input with a pruned identifier that two transactions still carry
C10_Witness ==
  /\ pc = "indexed"
  /\ \E id \in DOMAIN inventory :
       /\ id \notin DOMAIN item_counts
       /\ Cardinality({ i \in DOMAIN normalized : Contains(normalized[i], id) }) = 2
  /\ \E i \in DOMAIN normalized : Len(normalized[i]) = 3

====
